---- MODULE Spec2Model ----
(***************************************************************************)
(* Model of the m5rfid MFRC522 (I2C) driver: the transceive engine, the    *)
(* CRC engine, the presence check and the cascade anticollision/select     *)
(* loop of readUid(), with the queries over the stored UID and SAK.        *)
(*                                                                         *)
(* The chip is the environment.  Every bus-level call of the driver        *)
(* (transceiveData, calculateCRC) is answered by a record holding what     *)
(* the chip's registers read back during that call.  Register and FIFO     *)
(* reads are Int8LE, so the values the driver sees are in -128..127.       *)
(***************************************************************************)
EXTENDS Integers, Sequences, FiniteSets, TLC

VARIABLES
    uidBytes,   \* let uidBytes: number[] = []
    uidSize,    \* let uidSize = 0
    sak,        \* let sak = 0
    lastOp,     \* the public operation that ran last
    ret,        \* what it returned
    readRet,    \* what the most recent readUid() returned, "none" before the first
    bus,        \* the transceiveData / calculateCRC calls of the last operation
    chip,       \* what the chip answered to each of them, in the same order
    rfCfg,      \* the chip's RFCfgReg: the byte last written to it
    gainOp,     \* the gain operation that ran last, its argument and result
    gainLog,    \* the register accesses of that operation, in order
    prior,      \* uidBytes, uidSize and sak as they were when the last readUid() began
    tagDetectedHandlers, \* let tagDetectedHandlers: ((uid: string) => void)[] = []
    scanning,   \* let scanning = false
    fibers,     \* number of control.inBackground fibers started
    pc,         \* where the background loop stands
    idx,        \* the i of its dispatch loop
    uid,        \* the const uid of its current iteration
    tested,     \* how isNewCardPresent() && readUid() came out in this iteration
    calls,      \* the handler calls of this iteration, in order
    regOp,      \* the bus-level operation that ran last, its inputs and result
    regLog,     \* its register accesses and pauses, in order
    crcRun,     \* the chip's CommandReg and bit 0x04 of ComIrqReg, and the
                \* bus operation in progress, as a record of
                \*   command: the command last written, and for CalcCRC
                \*            whether the current calculateCRC call wrote it
                \*   crcIrq: clear, or which computation raised the bit
                \*   busOp: the public operation in progress on the bus
                \*   todo: its bus-level calls not yet finished
                \*   step: where the current bus-level call stands
                \*   left: the i of the poll loop of calculateCRC
                \*   exitOn: how the last poll loop of calculateCRC ended
                \*   seen: the bit as read when it ended on the bit
                \*   crcSinceClear: a CalcCRC command was written after
                \*                  ComIrqReg was last cleared
                \*   late: the bit was raised outside calculateCRC
    sched       \* the fibers, as a record of
                \*   running: the fiber that has the processor
                \*   fgAt: where the foreground fiber stands
                \*   mixed: bus accesses of one fiber made inside an
                \*          operation of the other

apiVars == <<uidBytes, uidSize, sak, lastOp, ret, readRet, bus, chip>>

gainVars == <<rfCfg, gainOp, gainLog>>

histVars == <<prior>>

scanVars == <<tagDetectedHandlers, scanning, fibers, pc, idx, uid, tested, calls>>

regVars == <<regOp, regLog>>

flagVars == <<crcRun>>

schedVars == <<sched>>

vars == <<apiVars, gainVars, histVars, scanVars, regVars, flagVars, schedVars>>

\* what the operations on the stored UID leave alone, and what the gain
\* operations leave alone
offApi == <<gainVars, histVars, scanVars, regVars, flagVars, schedVars>>

offGain == <<apiVars, histVars, scanVars, regVars, flagVars, schedVars>>

offScan == <<gainVars, histVars, regVars, flagVars, schedVars>>

offReg == <<apiVars, gainVars, histVars, scanVars, flagVars, schedVars>>

offFlag == <<apiVars, gainVars, histVars, scanVars, regVars, schedVars>>

(***************************************************************************)
(* Program constants                                                       *)
(***************************************************************************)
PICC_CMD_REQA == 38
PICC_CMD_SEL_CL1 == 147
PICC_CMD_SEL_CL2 == 149
PICC_CMD_SEL_CL3 == 151
NVB_ANTICOLL == 32
NVB_SELECT == 112
CASCADE_TAG == 136
MAX_CASCADE_LEVEL == 3
SAK_CASCADE_BIT == 4
IRQ_RX_IDLE == 48
IRQ_TIMER == 1
ERR_MASK == 19
TRANSCEIVE_BUDGET == 2000
RFCfgReg == 38
GAIN_MASK == 112
CommandReg == 1
ComIrqReg == 4
ErrorReg == 6
FIFODataReg == 9
FIFOLevelReg == 10
ControlReg == 12
BitFramingReg == 13
ModeReg == 17
TxControlReg == 20
TxASKReg == 21
TModeReg == 42
TPrescalerReg == 43
TReloadRegH == 44
TReloadRegL == 45
CRCResultRegH == 33
CRCResultRegL == 34
PCD_Idle == 0
PCD_CalcCRC == 3
PCD_Transceive == 12
PCD_SoftReset == 15
IRQ_CLEAR_ALL == 127
FIFO_FLUSH == 128
START_SEND == 128
IRQ_CRC == 4
CRC_BUDGET == 500
RESET_SETTLE_MS == 50
ANTENNA_BITS == 3

(***************************************************************************)
(* Arithmetic on the 32-bit integers of the source, restricted to the      *)
(* operand ranges the driver uses (one operand is a mask in 0..255).       *)
(***************************************************************************)
\* v & 0xFF for a signed v
U8(v) == v % 256

RECURSIVE BitAndN(_, _, _)
BitAndN(a, b, n) ==
    IF n = 0 THEN 0
    ELSE (a % 2) * (b % 2) + 2 * BitAndN(a \div 2, b \div 2, n - 1)

\* v & mask, for a mask in 0..255
And(v, mask) == BitAndN(U8(v), mask, 8)

RECURSIVE BitXorN(_, _, _)
BitXorN(a, b, n) ==
    IF n = 0 THEN 0
    ELSE ((a + b) % 2) + 2 * BitXorN(a \div 2, b \div 2, n - 1)

\* a ^ b for a, b in 0..255
Xor(a, b) == BitXorN(a, b, 8)

(***************************************************************************)
(* Register access.  readReg returns the register byte as Int8LE; writeReg *)
(* sends value & 0xFF.  A register access of an operation is logged as a   *)
(* record; a pause of the fiber is logged between the accesses.            *)
(***************************************************************************)
\* pins.i2cReadNumber(addr, NumberFormat.Int8LE) of a register byte 0..255
S8(b) == IF b >= 128 THEN b - 256 ELSE b

RECURSIVE BitOrN(_, _, _)
BitOrN(a, b, n) ==
    IF n = 0 THEN 0
    ELSE (IF a % 2 = 1 \/ b % 2 = 1 THEN 1 ELSE 0)
         + 2 * BitOrN(a \div 2, b \div 2, n - 1)

\* (v | mask) & 0xFF, for a mask in 0..255
Or(v, mask) == BitOrN(U8(v), mask, 8)

Rd(reg, val) == [op |-> "read", reg |-> reg, val |-> val]

Wr(reg, val) == [op |-> "write", reg |-> reg, val |-> U8(val)]

\* the byte setBitMask writes when readReg returned v
setBitMask(v, mask) == Or(v, mask)

\* variant: the masked bits are left as they are
clearBitMask_Keeps(v, mask) == U8(v)

\* the byte clearBitMask writes when readReg returned v: v & (~mask)
clearBitMask(v, mask) == And(v, 255 - mask)

(***************************************************************************)
(* hexByte, getUidHex, getUidBytes, typeName                               *)
(***************************************************************************)
HEX == <<"0", "1", "2", "3", "4", "5", "6", "7",
         "8", "9", "A", "B", "C", "D", "E", "F">>

hexByte(v) ==
    LET hi == (U8(v) \div 16) % 16
        lo == U8(v) % 16
    IN  HEX[hi + 1] \o HEX[lo + 1]

RECURSIVE HexJoin(_, _)
HexJoin(bytes, i) ==
    IF i > Len(bytes) THEN ""
    ELSE hexByte(bytes[i]) \o (IF i < Len(bytes) THEN ":" ELSE "")
         \o HexJoin(bytes, i + 1)

UidHexOf(bytes) ==
    IF Len(bytes) = 0 THEN "" ELSE HexJoin(bytes, 1)

getUidHex == UidHexOf(uidBytes)

\* Array.slice(0, n)
Slice0(s, n) == SubSeq(s, 1, IF n < Len(s) THEN n ELSE Len(s))

\* variant: the stored array handed out without the slice to uidSize
UidBytesOf_NoSlice(bytes, size) == bytes

UidBytesOf(bytes, size) == Slice0(bytes, size)

getUidBytes == UidBytesOf(uidBytes, uidSize)

TypeNameOf(s, size) ==
    CASE s = 1 -> "MIFARE Ultralight"
      [] s = 8 -> "MIFARE 1K"
      [] s = 24 -> "MIFARE 4K"
      [] s = 9 -> "MIFARE Mini"
      [] s = 0 -> IF size = 7 THEN "NTAG (7-byte UID)" ELSE "Type 2 Tag"
      [] OTHER -> "Unknown"

typeName == TypeNameOf(sak, uidSize)

(***************************************************************************)
(* Bus-level calls.  An answer of the chip to one transceiveData call is   *)
(*   [irq: the successive reads of ComIrqReg, err: ErrorReg,               *)
(*    fifo: the FIFO content (FIFOLevelReg reads its length),              *)
(*    ctl: ControlReg]                                                     *)
(* and to one calculateCRC call                                            *)
(*   [irq: the successive reads of ComIrqReg, crcH, crcL: result regs].    *)
(* A read beyond the listed irq reads returns 0 (no interrupt bit).        *)
(***************************************************************************)
Xcv(irq, err, fifo, ctl) == [irq |-> irq, err |-> err, fifo |-> fifo, ctl |-> ctl]

Crc(irq, h, l) == [irq |-> irq, crcH |-> h, crcL |-> l]

\* The iterations of a poll loop  let i = budget; while (i-- > 0)
\* { n = readReg(ComIrqReg); if (n & stop) break; }  at which the break
\* condition holds; the loop ends at the first of them.
StopPolls(reads, budget, stop) ==
    LET last == IF Len(reads) < budget THEN Len(reads) ELSE budget
    IN  { k \in 1..last : And(reads[k], stop) # 0 }

FirstOf(S) == CHOOSE k \in S : \A j \in S : k <= j

\* variant: the timer bit is tested before the receive and idle bits
PollTransceive_TimerFirst(reads, i) ==
    LET stops == StopPolls(reads, i, IRQ_RX_IDLE + IRQ_TIMER)
    IN  stops # {} /\ And(reads[FirstOf(stops)], IRQ_TIMER) = 0

\* The poll loop of transceiveData: the value of status when the loop ends.
\* The loop breaks at the first read with RxIRq, IdleIRq or TimerIRq, and
\* status is true when that read has RxIRq or IdleIRq.
PollTransceive(reads, i) ==
    LET stops == StopPolls(reads, i, IRQ_RX_IDLE + IRQ_TIMER)
    IN  stops # {} /\ And(reads[FirstOf(stops)], IRQ_RX_IDLE) # 0

transceiveData(c) ==
    LET status == PollTransceive(c.irq, TRANSCEIVE_BUDGET)
    IN  IF ~status \/ And(c.err, ERR_MASK) # 0
        THEN [back |-> <<>>, validBits |-> 0, status |-> FALSE]
        ELSE [back |-> c.fifo, validBits |-> And(c.ctl, 7), status |-> TRUE]

\* variant: an empty array is returned when the poll loop ran out
calculateCRC_EmptyOnTimeout(c) ==
    IF StopPolls(c.irq, CRC_BUDGET, IRQ_CRC) = {} THEN <<>> ELSE <<c.crcL, c.crcH>>

\* calculateCRC returns [l, h] whether or not the completion flag was seen.
calculateCRC(c) == <<c.crcL, c.crcH>>

\* What the driver put on the bus: one entry per transceiveData / calculateCRC
BusTransceive(send, txLastBits) ==
    [call |-> "transceive", data |-> send, bits |-> And(txLastBits, 7)]

BusCrc(data) == [call |-> "crc", data |-> data, bits |-> 0]

(***************************************************************************)
(* The register accesses of the bus-level calls.  ComIrqReg keeps a bit    *)
(* until it is cleared: a chip that has pending bits in it when a call     *)
(* begins, raises nothing for idle polls, then flags, and one poll later   *)
(* the bits of later too, is read as IrqReads gives.  BitFramingReg reads  *)
(* back what was written.                                                  *)
(***************************************************************************)
Pause(ms) == [op |-> "pause", reg |-> 0, val |-> ms]

\* variant: the write to ComIrqReg left out
PendingAfterClear_Kept(pending) == pending

\* ComIrqReg after writeReg(ComIrqReg, 0x7F): the bits written as 1 are cleared
PendingAfterClear(pending) == And(pending, 127 - IRQ_CLEAR_ALL)

\* the successive reads of ComIrqReg; reads after the last one repeat it
IrqReads(pending, idle, flags, later) ==
    [k \in 1..(idle + 2) |->
        IF k <= idle THEN pending
        ELSE IF k = idle + 1 THEN Or(pending, flags)
        ELSE Or(Or(pending, flags), later)]

\* variant: while (i-- >= 0), one iteration more when nothing breaks
PollsMade_OneMore(reads, budget, stop) ==
    LET stops == StopPolls(reads, budget + 1, stop)
    IN  IF stops = {} THEN budget + 1 ELSE FirstOf(stops)

\* the number of iterations a poll loop makes
PollsMade(reads, budget, stop) ==
    LET stops == StopPolls(reads, budget, stop)
    IN  IF stops = {} THEN budget ELSE FirstOf(stops)

\* the k-th poll of a loop; with no read listed the register reads 0
PollRead(reads, k) ==
    Rd(ComIrqReg, IF k <= Len(reads) THEN reads[k]
                  ELSE IF Len(reads) = 0 THEN 0
                  ELSE reads[Len(reads)])

flushFIFO == <<Wr(FIFOLevelReg, FIFO_FLUSH)>>

writeFIFO(data) == [k \in 1..Len(data) |-> Wr(FIFODataReg, data[k])]

readFIFO(fifo) == [k \in 1..Len(fifo) |-> Rd(FIFODataReg, fifo[k])]

\* transceiveData(send, txLastBits) against the answer c: its accesses
transceiveAccesses(send, txLastBits, c) ==
    LET frame == And(txLastBits, 7)
        started == setBitMask(S8(frame), START_SEND)
        polls == PollsMade(c.irq, TRANSCEIVE_BUDGET, IRQ_RX_IDLE + IRQ_TIMER)
        res == transceiveData(c)
    IN  <<Wr(ComIrqReg, IRQ_CLEAR_ALL), Wr(CommandReg, PCD_Idle)>>
        \o flushFIFO
        \o writeFIFO(send)
        \o <<Wr(BitFramingReg, frame), Wr(CommandReg, PCD_Transceive),
             Rd(BitFramingReg, S8(frame)), Wr(BitFramingReg, started)>>
        \o [k \in 1..polls |-> PollRead(c.irq, k)]
        \o <<Rd(BitFramingReg, S8(started)),
             Wr(BitFramingReg, clearBitMask(S8(started), START_SEND)),
             Rd(ErrorReg, c.err)>>
        \o (IF res.status
            THEN <<Rd(FIFOLevelReg, Len(c.fifo))>> \o readFIFO(c.fifo)
                 \o <<Rd(ControlReg, c.ctl)>>
            ELSE <<>>)

\* calculateCRC(data) against the answer c: its accesses
calculateCRCAccesses(data, c) ==
    LET polls == PollsMade(c.irq, CRC_BUDGET, IRQ_CRC)
    IN  flushFIFO
        \o writeFIFO(data)
        \o <<Wr(CommandReg, PCD_CalcCRC)>>
        \o [k \in 1..polls |-> PollRead(c.irq, k)]
        \o <<Rd(CRCResultRegH, c.crcH), Rd(CRCResultRegL, c.crcL)>>

softReset == <<Wr(CommandReg, PCD_SoftReset), Pause(RESET_SETTLE_MS)>>

\* antennaOn() when TxControlReg reads val
antennaOn(val) ==
    <<Rd(TxControlReg, val)>>
    \o (IF And(val, ANTENNA_BITS) = 0
        THEN <<Wr(TxControlReg, Or(val, ANTENNA_BITS))>>
        ELSE <<>>)

\* variant: the antenna is switched on before the timer is configured
initAccesses_AntennaFirst(val) ==
    softReset
    \o antennaOn(val)
    \o <<Wr(TModeReg, 141), Wr(TPrescalerReg, 62),
         Wr(TReloadRegH, 3), Wr(TReloadRegL, 232),
         Wr(TxASKReg, 64), Wr(ModeReg, 61)>>

\* init(): _init() when TxControlReg reads val
\* (0x8D, 0x3E, 0x03, 0xE8, 0x40, 0x3D)
initAccesses(val) ==
    softReset
    \o <<Wr(TModeReg, 141), Wr(TPrescalerReg, 62),
         Wr(TReloadRegH, 3), Wr(TReloadRegL, 232),
         Wr(TxASKReg, 64), Wr(ModeReg, 61)>>
    \o antennaOn(val)

(***************************************************************************)
(* isNewCardPresent                                                        *)
(***************************************************************************)
\* variant: the response length is not looked at
PresentResult_StatusOnly(res) == res.status

PresentResult(res) == res.status /\ Len(res.back) > 0

(***************************************************************************)
(* readUid                                                                 *)
(***************************************************************************)
\* variant: cascade level 3 sent with the select code of level 2
SelCode_Level2Twice(cascadeLevel) ==
    IF cascadeLevel = 1 THEN PICC_CMD_SEL_CL1 ELSE PICC_CMD_SEL_CL2

SelCode(cascadeLevel) ==
    CASE cascadeLevel = 1 -> PICC_CMD_SEL_CL1
      [] cascadeLevel = 2 -> PICC_CMD_SEL_CL2
      [] cascadeLevel = 3 -> PICC_CMD_SEL_CL3

\* variant: the fragment bytes kept as read (signed), without & 0xFF
ClUid_Signed(u) == [i \in 1..4 |-> u[i]]

\* cl_uid: the first four bytes of the anticollision response, masked
ClUid(u) == [i \in 1..4 |-> U8(u[i])]

Bcc(cl_uid) == U8(Xor(Xor(Xor(cl_uid[1], cl_uid[2]), cl_uid[3]), cl_uid[4]))

\* variant: the check byte compared as read (signed), without & 0xFF
BccMatches_Unmasked(u) == u[5] = Bcc(ClUid(u))

\* the check-byte test: (u[4] & 0xFF) === bcc
BccMatches(u) == U8(u[5]) = Bcc(ClUid(u))

\* variant: the cascade tag is never skipped
LevelBytes_KeepTag(cl_uid, cascadeLevel) == cl_uid

\* variant: the cascade tag is skipped at level 3 too
LevelBytes_SkipAtCL3(cl_uid, cascadeLevel) ==
    IF U8(cl_uid[1]) = CASCADE_TAG THEN SubSeq(cl_uid, 2, 4) ELSE cl_uid

\* variant: the cascade tag is skipped at level 1 only
LevelBytes_OnlyCL1(cl_uid, cascadeLevel) ==
    IF U8(cl_uid[1]) = CASCADE_TAG /\ cascadeLevel < 2
    THEN SubSeq(cl_uid, 2, 4)
    ELSE cl_uid

\* the bytes one cascade level pushes to uidBytes
LevelBytes(cl_uid, cascadeLevel) ==
    IF U8(cl_uid[1]) = CASCADE_TAG /\ cascadeLevel < MAX_CASCADE_LEVEL
    THEN SubSeq(cl_uid, 2, 4)
    ELSE cl_uid

\* (sak & 0x04) === 0
UidComplete(s) == And(s, SAK_CASCADE_BIT) = 0

\* the first three statements: uidBytes = []; uidSize = 0; sak = 0
ResetUid == [uidBytes |-> <<>>, uidSize |-> 0, sak |-> 0]

\* a "return false" inside the loop: the stored fields stay as they are
ReadFailed(m, log, pos) ==
    [ret |-> FALSE, uidBytes |-> m.uidBytes, uidSize |-> m.uidSize,
     sak |-> m.sak, bus |-> log, used |-> pos, more |-> FALSE]

\* the statements after the loop: uidSize = uidBytes.length; return uidSize > 0
ReadFinished(m, log, pos) ==
    [ret |-> Len(m.uidBytes) > 0, uidBytes |-> m.uidBytes,
     uidSize |-> Len(m.uidBytes), sak |-> m.sak,
     bus |-> log, used |-> pos, more |-> FALSE]

\* The while loop of readUid.  m holds uidBytes, uidSize and sak; script is
\* the chip's answers in the order of the bus calls; pos is the number of
\* answers consumed.  more = TRUE when the loop needs an answer the script
\* does not hold.
RECURSIVE readUidLoop(_, _, _, _, _, _)
readUidLoop(cascadeLevel, uidComplete, m, log, pos, script) ==
    IF uidComplete \/ cascadeLevel >= MAX_CASCADE_LEVEL
    THEN ReadFinished(m, log, pos)
    ELSE IF pos + 1 > Len(script)
    THEN [ReadFailed(m, log, pos) EXCEPT !.more = TRUE]
    ELSE
      LET level == cascadeLevel + 1
          cmd == <<SelCode(level), NVB_ANTICOLL>>
          r == transceiveData(script[pos + 1])
          log1 == Append(log, BusTransceive(cmd, 0))
      IN  IF ~r.status \/ Len(r.back) < 5
          THEN ReadFailed(m, log1, pos + 1)
          ELSE IF ~BccMatches(r.back)
          THEN ReadFailed(m, log1, pos + 1)
          ELSE IF pos + 3 > Len(script)
          THEN [ReadFailed(m, log1, pos + 1) EXCEPT !.more = TRUE]
          ELSE
            LET cl_uid == ClUid(r.back)
                bcc == Bcc(cl_uid)
                sel_cmd == <<SelCode(level), NVB_SELECT>> \o cl_uid \o <<bcc>>
                crc == calculateCRC(script[pos + 2])
                full_cmd == sel_cmd \o crc
                log2 == log1 \o <<BusCrc(sel_cmd), BusTransceive(full_cmd, 0)>>
                r2 == transceiveData(script[pos + 3])
            IN  IF ~r2.status \/ Len(r2.back) < 1
                THEN ReadFailed(m, log2, pos + 3)
                ELSE
                  LET m1 == [m EXCEPT !.sak = U8(r2.back[1])]
                      m2 == [m1 EXCEPT !.uidBytes = @ \o LevelBytes(cl_uid, level)]
                  IN  readUidLoop(level, UidComplete(m2.sak), m2,
                                  log2, pos + 3, script)

\* readUid() against the chip answers of script: the reset, then the loop
readUid(script) == readUidLoop(0, FALSE, ResetUid, <<>>, 0, script)

(***************************************************************************)
(* The chip answers the model draws from.  Bytes are as Int8LE reads them: *)
(* 0x88 is -120, 0xA1 is -95, 0xB2 is -78, 0xC3 is -61, 0xD4 is -44.       *)
(***************************************************************************)
\* how many polls of ComIrqReg read 0 before the chip raises a flag
MaxIdlePolls == 1

Idle == [i \in 1..MaxIdlePolls |-> 0]

\* ComIrqReg reads: 0x64 = TxIRq|RxIRq|IdleIRq, 0x01 = TimerIRq,
\* 0x04 = CRCIRq; IrqNever raises no flag within the budget
IrqDone == Idle \o <<100>>
IrqTimer == Idle \o <<1>>
IrqNever == <<>>
IrqCrcDone == Idle \o <<4>>

\* fragment + check byte; each fragment once with its XOR and once corrupted
AcFifos ==
    { <<-120, 17, 34, 51, -120>>, <<-120, 17, 34, 51, 8>>,
      <<68, 85, 102, 119, 0>>,    <<68, 85, 102, 119, -128>>,
      <<4, -95, -78, -61, -44>>,  <<4, -95, -78, -61, 44>> }

AcAnswers ==
    { Xcv(IrqTimer, 0, <<>>, 0),
      Xcv(IrqDone, 2, <<68, 85, 102, 119, 0>>, 0),
      Xcv(IrqDone, 0, <<68, 85, 102, 119>>, 0) }
    \cup { Xcv(IrqDone, 0, f, 0) : f \in AcFifos }

\* SAK followed by its CRC_A
SelAnswers ==
    { Xcv(IrqNever, 0, <<>>, 0),
      Xcv(IrqDone, 0, <<>>, 0),
      Xcv(IrqDone, 0, <<0, -2, 81>>, 0),
      Xcv(IrqDone, 0, <<8, -74, -35>>, 0),
      Xcv(IrqDone, 0, <<4, -38, 23>>, 0) }

CrcAnswers ==
    { Crc(IrqCrcDone, 18, 52),
      Crc(IrqNever, -1, -1) }

PresenceAnswers ==
    { Xcv(IrqTimer, 0, <<>>, 0),
      Xcv(IrqNever, 0, <<>>, 0),
      Xcv(IrqDone, 16, <<4, 0>>, 0),
      Xcv(IrqDone, 0, <<>>, 0),
      Xcv(IrqDone, 0, <<4, 0>>, 0),
      Xcv(IrqDone, 0, <<68>>, 7) }

\* The answers to the bus calls of one cascade level: the chip is asked for
\* a CRC and a select answer only when the driver goes on to them.
AcGoesOn(a) ==
    LET r == transceiveData(a)
    IN  r.status /\ Len(r.back) >= 5 /\ BccMatches(r.back)

LevelAnswers ==
    { <<a>> : a \in { x \in AcAnswers : ~AcGoesOn(x) } }
    \cup { <<a, c, s>> : a \in { x \in AcAnswers : AcGoesOn(x) },
                         c \in CrcAnswers, s \in SelAnswers }

\* readUid() against the answers of one, two and three cascade levels; a
\* further level is answered only where the loop asks for it (more)
Runs1 == { [script |-> x, r |-> readUid(x)] : x \in LevelAnswers }

Runs2 ==
    { [script |-> a.script \o b, r |-> readUid(a.script \o b)] :
        a \in { x \in Runs1 : x.r.more }, b \in LevelAnswers }

Runs3 ==
    { [script |-> a.script \o b, r |-> readUid(a.script \o b)] :
        a \in { x \in Runs2 : x.r.more }, b \in LevelAnswers }

\* every run of readUid() to its return: the chip's answers, all of them
\* consumed, and what the call leaves
Runs ==
    { x \in Runs1 \cup Runs2 \cup Runs3 :
        ~x.r.more /\ x.r.used = Len(x.script) }

(***************************************************************************)
(* getAntennaGain, setAntennaGain                                          *)
(***************************************************************************)
\* (readReg(RFCfgReg) >> 4) & 0x07 when the register holds the byte reg
getAntennaGain(reg) == And(S8(reg) \div 16, 7)

\* Math.max(0, Math.min(7, gain))
ClampGain(gain) ==
    LET lo == IF gain < 7 THEN gain ELSE 7
    IN  IF lo > 0 THEN lo ELSE 0

\* variant: the register is rewritten whatever gain it holds
GainDiffers_Always(reg, gain) == TRUE

\* getAntennaGain() !== (gain & 0x07)
GainDiffers(reg, gain) == getAntennaGain(reg) # And(gain, 7)

\* setAntennaGain(g) on a register holding reg: the byte the register holds
\* afterwards and the accesses made
setAntennaGain(reg, g) ==
    LET gain == ClampGain(g)
        mask == And(gain, 7) * 16
        cleared == clearBitMask(S8(reg), GAIN_MASK)
        set == setBitMask(S8(cleared), mask)
    IN  IF GainDiffers(reg, gain)
        THEN [reg |-> set,
              log |-> <<Rd(RFCfgReg, S8(reg)),
                        Rd(RFCfgReg, S8(reg)), Wr(RFCfgReg, cleared),
                        Rd(RFCfgReg, S8(cleared)), Wr(RFCfgReg, set)>>]
        ELSE [reg |-> reg, log |-> <<Rd(RFCfgReg, S8(reg))>>]

\* the record of the gain operation that ran last: its argument, its
\* result, and before: the operation that ran before it
NoGainOp ==
    [op |-> "none", gain |-> 0, ret |-> 0,
     before |-> [op |-> "none", gain |-> 0, writes |-> 0]]

\* number of register writes among the accesses of log
WritesIn(log) == Cardinality({ k \in 1..Len(log) : log[k].op = "write" })

GainOp(op, gain, r) ==
    [op |-> op, gain |-> gain, ret |-> r,
     before |-> [op |-> gainOp.op, gain |-> gainOp.gain,
                 writes |-> WritesIn(gainLog)]]

\* no gain operation has run; the chip register is not looked at
GainIdle ==
    /\ rfCfg = 0
    /\ gainOp = NoGainOp
    /\ gainLog = <<>>

(***************************************************************************)
(* State machine: one action per public operation                          *)
(***************************************************************************)
\* the module-level state before any public operation ran
ApiInit ==
    /\ uidBytes = <<>>
    /\ uidSize = 0
    /\ sak = 0
    /\ lastOp = "none"
    /\ ret = FALSE
    /\ readRet = "none"
    /\ bus = <<>>
    /\ chip = <<>>

\* no bus-level operation has run
RegIdle ==
    /\ regOp = [op |-> "none"]
    /\ regLog = <<>>

\* no handler registered, no background loop
ScanIdle ==
    /\ tagDetectedHandlers = <<>>
    /\ scanning = FALSE
    /\ fibers = 0
    /\ pc = "none"
    /\ idx = 0
    /\ uid = ""
    /\ tested = "none"
    /\ calls = <<>>

\* the chip as the driver leaves it between operations: no bus operation in
\* progress, bit 0x04 of ComIrqReg clear
FlagIdle ==
    crcRun = [command |-> "idle", crcIrq |-> "clear", busOp |-> "none",
              todo |-> <<>>, step |-> "none", left |-> 0,
              exitOn |-> "none", seen |-> "none",
              crcSinceClear |-> FALSE, late |-> FALSE]

\* the program starts in the foreground fiber, outside any driver call
SchedIdle ==
    sched = [running |-> "fg", fgAt |-> "user", mixed |-> {}]

Init ==
    /\ ApiInit
    /\ GainIdle
    /\ prior = ResetUid
    /\ ScanIdle
    /\ RegIdle
    /\ FlagIdle
    /\ SchedIdle

\* variant: readUid() without its statement sak = 0; the stored SAK is
\* assigned only where a select response was received
ReadUidRun_KeepsSak(run) ==
    LET selected == /\ Len(run.script) >= 3
                    /\ transceiveData(run.script[3]).status
                    /\ Len(transceiveData(run.script[3]).back) >= 1
    IN  /\ uidBytes' = run.r.uidBytes
        /\ uidSize' = run.r.uidSize
        /\ sak' = IF selected THEN run.r.sak ELSE sak
        /\ lastOp' = "readUid"
        /\ ret' = run.r.ret
        /\ readRet' = IF run.r.ret THEN "true" ELSE "false"
        /\ bus' = run.r.bus
        /\ chip' = run.script

\* readUid() has run to its return against the chip answers of run
ReadUidRun(run) ==
    /\ uidBytes' = run.r.uidBytes
    /\ uidSize' = run.r.uidSize
    /\ sak' = run.r.sak
    /\ lastOp' = "readUid"
    /\ ret' = run.r.ret
    /\ readRet' = IF run.r.ret THEN "true" ELSE "false"
    /\ bus' = run.r.bus
    /\ chip' = run.script

ReadUid ==
    \E run \in Runs :
        /\ ReadUidRun(run)
        /\ UNCHANGED offApi

\* variant: the presence check clears the stored UID and SAK
IsNewCardPresent_Resets ==
    \E c \in PresenceAnswers :
        LET res == transceiveData(c)
        IN  /\ lastOp' = "isNewCardPresent"
            /\ ret' = PresentResult(res)
            /\ bus' = <<BusTransceive(<<PICC_CMD_REQA>>, 7)>>
            /\ chip' = <<c>>
            /\ uidBytes' = <<>>
            /\ uidSize' = 0
            /\ sak' = 0
            /\ UNCHANGED readRet
            /\ UNCHANGED offApi

IsNewCardPresent ==
    \E c \in PresenceAnswers :
        LET res == transceiveData(c)
        IN  /\ lastOp' = "isNewCardPresent"
            /\ ret' = PresentResult(res)
            /\ bus' = <<BusTransceive(<<PICC_CMD_REQA>>, 7)>>
            /\ chip' = <<c>>
            /\ UNCHANGED <<uidBytes, uidSize, sak, readRet>>
            /\ UNCHANGED offApi

Next == ReadUid \/ IsNewCardPresent

Spec == Init /\ [][Next]_vars

(***************************************************************************)
(* The antenna gain operations against a chip whose RFCfgReg holds what    *)
(* was last written to it, started from any register content.              *)
(***************************************************************************)
\* the largest gain argument drawn; the smallest is below the valid range
MaxGainArg == 9

GainArgs == -2..MaxGainArg

GainInit ==
    /\ ApiInit
    /\ prior = ResetUid
    /\ ScanIdle
    /\ RegIdle
    /\ FlagIdle
    /\ SchedIdle
    /\ rfCfg \in 0..255
    /\ gainOp = NoGainOp
    /\ gainLog = <<>>

SetAntennaGain ==
    \E g \in GainArgs :
        LET r == setAntennaGain(rfCfg, g)
        IN  /\ rfCfg' = r.reg
            /\ gainOp' = GainOp("set", g, 0)
            /\ gainLog' = r.log
            /\ UNCHANGED offGain

GetAntennaGain ==
    /\ gainOp' = GainOp("get", 0, getAntennaGain(rfCfg))
    /\ gainLog' = <<Rd(RFCfgReg, S8(rfCfg))>>
    /\ UNCHANGED rfCfg
    /\ UNCHANGED offGain

GainNext == SetAntennaGain \/ GetAntennaGain

SpecGain == GainInit /\ [][GainNext]_vars

(***************************************************************************)
(* readUid() called again and again, each call from the state the one      *)
(* before left, with the state at the start of the call kept.              *)
(***************************************************************************)
\* the most chip answers one readUid() call is given
MaxHistAnswers == 4

HistRuns == { x \in Runs : Len(x.script) <= MaxHistAnswers }

HistInit == Init

ReadUidAgain ==
    \E run \in HistRuns :
        /\ ReadUidRun(run)
        /\ prior' = [uidBytes |-> uidBytes, uidSize |-> uidSize, sak |-> sak]
        /\ UNCHANGED <<gainVars, scanVars, regVars, flagVars, schedVars>>

HistNext == ReadUidAgain

SpecHistory == HistInit /\ [][HistNext]_vars

(***************************************************************************)
(* onTagDetected and the background loop it starts.  The loop is one       *)
(* fiber; it is followed statement by statement, and onTagDetected may be  *)
(* called between any two of its steps.                                    *)
(***************************************************************************)
\* the most handlers registered
MaxHandlers == 2

\* the most chip answers one readUid() call of the loop is given
MaxScanAnswers == 3

HandlerIds == {"h1", "h2"}

ScanRuns == { x \in Runs : Len(x.script) <= MaxScanAnswers }

ScanInit == Init

\* variant: a background loop is started by every call
StartsLoop_Always(s) == TRUE

\* if (!scanning)
StartsLoop(s) == ~s

OnTagDetected ==
    \E h \in HandlerIds :
        /\ Len(tagDetectedHandlers) < MaxHandlers
        /\ tagDetectedHandlers' = Append(tagDetectedHandlers, h)
        /\ IF StartsLoop(scanning)
           THEN /\ scanning' = TRUE
                /\ fibers' = fibers + 1
                /\ pc' = "test"
           ELSE UNCHANGED <<scanning, fibers, pc>>
        /\ UNCHANGED <<idx, uid, tested, calls>>
        /\ UNCHANGED <<apiVars, offScan>>

\* while (scanning) { if (isNewCardPresent() && readUid()) { const uid = getUidHex(); i = 0
ScanTest ==
    /\ pc = "test"
    /\ scanning
    /\ calls' = <<>>
    /\ idx' = 0
    /\ \E c \in PresenceAnswers :
        IF ~PresentResult(transceiveData(c))
        THEN /\ lastOp' = "isNewCardPresent"
             /\ ret' = FALSE
             /\ bus' = <<BusTransceive(<<PICC_CMD_REQA>>, 7)>>
             /\ chip' = <<c>>
             /\ UNCHANGED <<uidBytes, uidSize, sak, readRet>>
             /\ tested' = "miss"
             /\ pc' = "pause100"
             /\ UNCHANGED uid
        ELSE \E run \in ScanRuns :
             /\ ReadUidRun(run)
             /\ IF run.r.ret
                THEN /\ tested' = "hit"
                     /\ uid' = UidHexOf(run.r.uidBytes)
                     /\ pc' = "dispatch"
                ELSE /\ tested' = "miss"
                     /\ pc' = "pause100"
                     /\ UNCHANGED uid
    /\ UNCHANGED <<tagDetectedHandlers, scanning, fibers>>
    /\ UNCHANGED offScan

\* for (let i = 0; i < tagDetectedHandlers.length; i++) tagDetectedHandlers[i](uid)
ScanDispatch ==
    /\ pc = "dispatch"
    /\ IF idx < Len(tagDetectedHandlers)
       THEN /\ calls' = Append(calls, [handler |-> tagDetectedHandlers[idx + 1],
                                       uid |-> uid])
            /\ idx' = idx + 1
            /\ UNCHANGED pc
       ELSE /\ pc' = "pause500"
            /\ UNCHANGED <<calls, idx>>
    /\ UNCHANGED <<tagDetectedHandlers, scanning, fibers, uid, tested>>
    /\ UNCHANGED <<apiVars, offScan>>

\* basic.pause(500) is over
ScanPause500 ==
    /\ pc = "pause500"
    /\ pc' = "pause100"
    /\ UNCHANGED <<tagDetectedHandlers, scanning, fibers, idx, uid, tested, calls>>
    /\ UNCHANGED <<apiVars, offScan>>

\* basic.pause(100) is over
ScanPause100 ==
    /\ pc = "pause100"
    /\ pc' = "test"
    /\ UNCHANGED <<tagDetectedHandlers, scanning, fibers, idx, uid, tested, calls>>
    /\ UNCHANGED <<apiVars, offScan>>

ScanNext ==
    \/ OnTagDetected
    \/ ScanTest
    \/ ScanDispatch
    \/ ScanPause500
    \/ ScanPause100

SpecScan == ScanInit /\ [][ScanNext]_vars

(***************************************************************************)
(* The bus-level calls one at a time, each against a chip answer: what it  *)
(* returns and the register accesses it makes.                             *)
(***************************************************************************)
\* bits pending in ComIrqReg when a call begins: none, or 0x35 = RxIRq |
\* IdleIRq | CRCIRq | TimerIRq left by earlier operations
StalePending == {0, 53}

\* the chip raises flags after idle polls: 0x64 received, 0x01 timer,
\* 0x65 both in the same poll, 0x44 TxIRq and CRCIRq only
QuickIrq ==
    { [idle |-> 0, flags |-> 100, later |-> 0],
      [idle |-> MaxIdlePolls, flags |-> 100, later |-> 1],
      [idle |-> MaxIdlePolls, flags |-> 1, later |-> 100],
      [idle |-> MaxIdlePolls, flags |-> 101, later |-> 0],
      [idle |-> MaxIdlePolls, flags |-> 68, later |-> 32] }

\* no flag at all; a flag at the last poll of the budget; a flag one poll late
SlowIrq ==
    { [idle |-> 0, flags |-> 0, later |-> 0],
      [idle |-> TRANSCEIVE_BUDGET - 1, flags |-> 100, later |-> 0],
      [idle |-> TRANSCEIVE_BUDGET - 1, flags |-> 64, later |-> 100],
      [idle |-> TRANSCEIVE_BUDGET, flags |-> 100, later |-> 0] }

\* ErrorReg: ProtocolErr 0x01, ParityErr 0x02, CRCErr 0x04, CollErr 0x08,
\* BufferOvfl 0x10
ErrValues == {0, 1, 2, 4, 8, 16}

RegAnswer(pending, q, err, fifo, ctl) ==
    [pending |-> pending, idle |-> q.idle, flags |-> q.flags,
     later |-> q.later, err |-> err, fifo |-> fifo, ctl |-> ctl]

QuickAnswers ==
    { RegAnswer(p, q, e, f, 7) :
        p \in StalePending, q \in QuickIrq, e \in ErrValues,
        f \in {<<>>, <<4, 0>>} }

SlowAnswers ==
    { RegAnswer(p, q, 0, <<4, 0>>, 0) : p \in StalePending, q \in SlowIrq }

\* what transceiveData reads when the chip answers a: the pending bits
\* are those its first write left
SeenBy(a) ==
    Xcv(IrqReads(PendingAfterClear(a.pending), a.idle, a.flags, a.later),
        a.err, a.fifo, a.ctl)

XcvCall(s, a) ==
    [send |-> s, answer |-> a, result |-> transceiveData(SeenBy(a)),
     log |-> transceiveAccesses(s.data, s.bits, SeenBy(a))]

\* every answer to the anticollision command; to the REQA the quick ones
XcvCalls ==
    { XcvCall([data |-> <<PICC_CMD_SEL_CL1, NVB_ANTICOLL>>, bits |-> 0], a) :
        a \in QuickAnswers \cup SlowAnswers }
    \cup { XcvCall([data |-> <<PICC_CMD_REQA>>, bits |-> 7], a) :
             a \in QuickAnswers }

CrcIrq ==
    { [idle |-> 0, flags |-> 4],
      [idle |-> MaxIdlePolls, flags |-> 4],
      [idle |-> 0, flags |-> 0],
      [idle |-> CRC_BUDGET, flags |-> 4] }

\* calculateCRC does not write ComIrqReg: it reads the pending bits as
\* they are
CrcCalls ==
    { [data |-> <<PICC_CMD_SEL_CL1, NVB_SELECT, 68, 85, 102, 119, 0>>,
       answer |-> [pending |-> p, idle |-> q.idle, flags |-> q.flags],
       result |-> calculateCRC(c),
       log |-> calculateCRCAccesses(
                   <<PICC_CMD_SEL_CL1, NVB_SELECT, 68, 85, 102, 119, 0>>,
                   Crc(IrqReads(p, q.idle, q.flags, 0), c.crcH, c.crcL))] :
        p \in {0, 4}, q \in CrcIrq, c \in CrcAnswers }

\* TxControlReg as init() reads it: 0x80 after a reset, 0x00, one or both
\* drive bits already set
TxControlReads == {-128, 0, 1, 2, -125}

RegInit == Init

TransceiveData ==
    \E x \in XcvCalls :
        /\ regOp' = [op |-> "transceive", send |-> x.send,
                     answer |-> x.answer, result |-> x.result]
        /\ regLog' = x.log
        /\ UNCHANGED offReg

CalculateCRC ==
    \E x \in CrcCalls :
        /\ regOp' = [op |-> "crc", send |-> x.data,
                     answer |-> x.answer, result |-> x.result]
        /\ regLog' = x.log
        /\ UNCHANGED offReg

InitDriver ==
    \E val \in TxControlReads :
        /\ regOp' = [op |-> "init", txControl |-> val]
        /\ regLog' = initAccesses(val)
        /\ UNCHANGED offReg

RegNext == TransceiveData \/ CalculateCRC \/ InitDriver

SpecReg == RegInit /\ [][RegNext]_vars

(***************************************************************************)
(* readUid() against a chip whose FIFO bytes have bit 7 set in every       *)
(* position the driver looks at: fragment bytes, check byte, SAK.  The     *)
(* bytes are as Int8LE reads them: 0x88 is -120, 0xD4 is -44, 0xFF is -1,  *)
(* 0x80 is -128, 0xFC is -4.                                               *)
(***************************************************************************)
\* fragments with XOR 0x88, 0xD4 and 0x7F
SignedFrags ==
    { <<-120, 17, 34, 51>>, <<4, -95, -78, -61>>, <<-1, -1, -1, -128>> }

\* check bytes: the three XORs as read, and 0x08 and 0xFF, which differ
\* from 0x88 and 0x7F in bit 7 only
SignedChecks == {-120, -44, 127, 8, -1}

SignedAcAnswers ==
    { Xcv(IrqDone, 0, f \o <<c>>, 0) : f \in SignedFrags, c \in SignedChecks }

\* SAK 0x88 and 0x00 (UID complete), 0xFC and 0x04 (cascade bit set)
SignedSelAnswers ==
    { Xcv(IrqDone, 0, <<k>>, 0) : k \in {-120, 0, -4, 4} }

SignedLevelAnswers ==
    { <<a>> : a \in { x \in SignedAcAnswers : ~AcGoesOn(x) } }
    \cup { <<a, Crc(IrqCrcDone, 18, 52), k>> :
              a \in { x \in SignedAcAnswers : AcGoesOn(x) },
              k \in SignedSelAnswers }

SignedRuns1 == { [script |-> x, r |-> readUid(x)] : x \in SignedLevelAnswers }

SignedRuns2 ==
    { [script |-> a.script \o b, r |-> readUid(a.script \o b)] :
        a \in { x \in SignedRuns1 : x.r.more }, b \in SignedLevelAnswers }

SignedRuns3 ==
    { [script |-> a.script \o b, r |-> readUid(a.script \o b)] :
        a \in { x \in SignedRuns2 : x.r.more }, b \in SignedLevelAnswers }

\* every run of readUid() to its return against these answers
SignedRuns ==
    { x \in SignedRuns1 \cup SignedRuns2 \cup SignedRuns3 :
        ~x.r.more /\ x.r.used = Len(x.script) }

SignedInit == Init

ReadUidSigned ==
    \E run \in SignedRuns :
        /\ ReadUidRun(run)
        /\ UNCHANGED offApi

SignedNext == ReadUidSigned

SpecSigned == SignedInit /\ [][SignedNext]_vars

(***************************************************************************)
(* The CRC completion flag across the bus-level calls of an operation.     *)
(* The driver's calls are followed register write by register write; the   *)
(* chip raises bit 0x04 of ComIrqReg at any moment while CommandReg holds  *)
(* CalcCRC, and the bit stays until ComIrqReg is cleared.  The bit and the *)
(* command carry which computation they belong to: "this" is the current   *)
(* (or most recent) calculateCRC call, "earlier" any one before it.        *)
(***************************************************************************)
\* the bus-level calls of readUid() in their order, for every run
CallKinds ==
    { [i \in 1..Len(x.r.bus) |-> x.r.bus[i].call] : x \in Runs }

\* the first register access of a bus-level call
FirstStep(kind) == IF kind = "transceive" THEN "clear" ELSE "load"

\* variant: transceiveData without its write to ComIrqReg
CrcIrqAfterClear_Kept(bit) == bit

\* bit 0x04 after writeReg(ComIrqReg, 0x7F)
CrcIrqAfterClear(bit) ==
    IF And(IRQ_CLEAR_ALL, IRQ_CRC) # 0 THEN "clear" ELSE bit

\* a public operation begins its first bus-level call
Begin(r, op, kinds) ==
    [r EXCEPT !.busOp = op, !.todo = kinds, !.step = FirstStep(kinds[1]),
              !.late = FALSE]

\* the current bus-level call returns: the next one begins, or the
\* operation returns
Advance(r) ==
    LET rest == Tail(r.todo)
    IN  IF rest = <<>>
        THEN [r EXCEPT !.todo = <<>>, !.step = "none", !.busOp = "none"]
        ELSE [r EXCEPT !.todo = rest, !.step = FirstStep(rest[1])]

\* the chip before the driver's first operation: no command active, bit
\* 0x04 clear or left set by whatever came before
FlagInit ==
    /\ ApiInit
    /\ GainIdle
    /\ prior = ResetUid
    /\ ScanIdle
    /\ RegIdle
    /\ SchedIdle
    /\ crcRun \in
          { [command |-> c, crcIrq |-> b, busOp |-> "none", todo |-> <<>>,
             step |-> "none", left |-> 0, exitOn |-> "none", seen |-> "none",
             crcSinceClear |-> TRUE, late |-> FALSE] :
                c \in {"idle"}, b \in {"clear", "earlier"} }

\* init(): writeReg(CommandReg, PCD_SoftReset) ends whatever command was
\* active; the other writes of _init() touch neither CommandReg nor
\* ComIrqReg.  The bit is cleared by the reset or left as it was
FlagInitDriver ==
    /\ crcRun.busOp = "none"
    /\ \E b \in {"clear", IF crcRun.crcIrq = "clear" THEN "clear" ELSE "earlier"} :
          crcRun' = [crcRun EXCEPT !.command = "idle", !.crcIrq = b]
    /\ UNCHANGED offFlag

FlagReadUid ==
    /\ crcRun.busOp = "none"
    /\ \E kinds \in CallKinds : crcRun' = Begin(crcRun, "readUid", kinds)
    /\ UNCHANGED offFlag

FlagIsNewCardPresent ==
    /\ crcRun.busOp = "none"
    /\ crcRun' = Begin(crcRun, "isNewCardPresent", <<"transceive">>)
    /\ UNCHANGED offFlag

\* transceiveData: writeReg(ComIrqReg, 0x7F)
XcvClear ==
    /\ crcRun.step = "clear"
    /\ crcRun' = [crcRun EXCEPT !.crcIrq = CrcIrqAfterClear(@),
                                !.crcSinceClear = FALSE,
                                !.step = "idle"]
    /\ UNCHANGED offFlag

\* transceiveData: writeReg(CommandReg, PCD_Idle)
XcvIdle ==
    /\ crcRun.step = "idle"
    /\ crcRun' = [crcRun EXCEPT !.command = "idle", !.step = "run"]
    /\ UNCHANGED offFlag

\* transceiveData: the FIFO load, writeReg(CommandReg, PCD_Transceive), the
\* poll loop and the reads after it, to the return
XcvRun ==
    /\ crcRun.step = "run"
    /\ crcRun' = Advance([crcRun EXCEPT !.command = "transceive"])
    /\ UNCHANGED offFlag

\* calculateCRC: flushFIFO(); writeFIFO(data).  What the chip holds from
\* now on belongs to an earlier computation
CrcLoad ==
    /\ crcRun.step = "load"
    /\ crcRun' =
          [crcRun EXCEPT
              !.crcIrq = IF @ = "this" THEN "earlier" ELSE @,
              !.command = IF @ = "crc_this" THEN "crc_earlier" ELSE @,
              !.exitOn = "none", !.seen = "none",
              !.step = "command"]
    /\ UNCHANGED offFlag

\* calculateCRC: writeReg(CommandReg, PCD_CalcCRC); let i = 500
CrcCommand ==
    /\ crcRun.step = "command"
    /\ crcRun' = [crcRun EXCEPT !.command = "crc_this",
                                !.crcSinceClear = TRUE,
                                !.left = CRC_BUDGET,
                                !.step = "poll"]
    /\ UNCHANGED offFlag

\* calculateCRC: while (i-- > 0) { n = readReg(ComIrqReg); if (n & 0x04) break; }
CrcPoll ==
    /\ crcRun.step = "poll"
    /\ crcRun' =
          IF crcRun.left = 0
          THEN [crcRun EXCEPT !.exitOn = "budget", !.step = "result"]
          ELSE IF crcRun.crcIrq # "clear"
          THEN [crcRun EXCEPT !.left = @ - 1, !.exitOn = "flag",
                              !.seen = crcRun.crcIrq, !.step = "result"]
          ELSE [crcRun EXCEPT !.left = @ - 1]
    /\ UNCHANGED offFlag

\* calculateCRC: the two reads of the result registers, and the return
CrcResult ==
    /\ crcRun.step = "result"
    /\ crcRun' = Advance(crcRun)
    /\ UNCHANGED offFlag

\* the chip completes a CRC computation: bit 0x04 is raised
ChipRaisesCrc ==
    /\ crcRun.command \in {"crc_this", "crc_earlier"}
    /\ crcRun.crcIrq = "clear"
    /\ crcRun' =
          [crcRun EXCEPT
              !.crcIrq = IF crcRun.command = "crc_this" THEN "this" ELSE "earlier",
              !.late = @ \/ crcRun.step # "poll"]
    /\ UNCHANGED offFlag

FlagNext ==
    \/ FlagInitDriver
    \/ FlagReadUid
    \/ FlagIsNewCardPresent
    \/ XcvClear
    \/ XcvIdle
    \/ XcvRun
    \/ CrcLoad
    \/ CrcCommand
    \/ CrcPoll
    \/ CrcResult
    \/ ChipRaisesCrc

SpecFlags == FlagInit /\ [][FlagNext]_vars

(***************************************************************************)
(* The foreground fiber and the background loop under cooperative          *)
(* scheduling: one fiber has the processor and keeps it until it executes  *)
(* pause(); then any fiber whose pause is over, or that has not run yet,   *)
(* gets it.  The foreground is user code that calls the driver's public    *)
(* operations in any order and pauses between calls when it likes.         *)
(***************************************************************************)
\* the most chip answers one readUid() call is given here
MaxSchedAnswers == 3

\* the runs of readUid() here: the chip raises a flag in every call
SchedRuns ==
    { x \in Runs :
        /\ Len(x.script) <= MaxSchedAnswers
        /\ \A i \in 1..Len(x.script) : x.script[i].irq # IrqNever }

\* the answers to the REQA here: none, and an ATQA
SchedPresence == { Xcv(IrqTimer, 0, <<>>, 0), Xcv(IrqDone, 0, <<4, 0>>, 0) }

\* the gain the foreground sets (gain.defl)
SchedGain == 4

\* TxControlReg as init() reads it here: 0x80
SchedTxControl == -128

\* a foreground call is between its first and its last register access
FgOpen == sched.fgAt # "user"

\* the loop is inside isNewCardPresent() && readUid(), getUidHex()
BgOpen == pc \in {"readUid", "getUidHex"}

\* bus accesses by fiber f: what they fall inside of
Overlap(f) ==
    IF f = "bg" /\ FgOpen THEN {[by |-> "bg", inside |-> sched.fgAt]}
    ELSE IF f = "fg" /\ BgOpen THEN {[by |-> "fg", inside |-> "loop"]}
    ELSE {}

\* the running fiber goes on after bus accesses
Accessed(f) == [sched EXCEPT !.mixed = @ \cup Overlap(f)]

\* the running fiber executes pause(): it gives up the processor
Paused(r) == [r EXCEPT !.running = "none"]

FgRuns == sched.running = "fg" /\ sched.fgAt = "user"

BgRuns == sched.running = "bg" /\ scanning

SchedInit == Init

\* onTagDetected(handler): control.inBackground makes the fiber ready
FgOnTagDetected ==
    /\ FgRuns
    /\ Len(tagDetectedHandlers) < MaxHandlers
    /\ tagDetectedHandlers' = Append(tagDetectedHandlers, "h1")
    /\ IF StartsLoop(scanning)
       THEN /\ scanning' = TRUE
            /\ fibers' = fibers + 1
            /\ pc' = "test"
       ELSE UNCHANGED <<scanning, fibers, pc>>
    /\ UNCHANGED <<idx, uid, tested, calls>>
    /\ UNCHANGED <<apiVars, gainVars, histVars, regVars, flagVars, schedVars>>

\* init() up to the pause(50) of softReset(): the fiber yields there
FgInitToPause ==
    /\ FgRuns
    /\ regOp' = [op |-> "init", txControl |-> SchedTxControl]
    /\ regLog' = softReset
    /\ sched' = Paused([Accessed("fg") EXCEPT !.fgAt = "init"])
    /\ UNCHANGED <<apiVars, gainVars, histVars, scanVars, flagVars>>

\* init() from the end of pause(50) to its return
FgInitFromPause ==
    /\ sched.running = "fg"
    /\ sched.fgAt = "init"
    /\ regOp' = [op |-> "init", txControl |-> SchedTxControl]
    /\ regLog' = initAccesses(SchedTxControl)
    /\ sched' = [Accessed("fg") EXCEPT !.fgAt = "user"]
    /\ UNCHANGED <<apiVars, gainVars, histVars, scanVars, flagVars>>

FgReadUid ==
    /\ FgRuns
    /\ \E run \in SchedRuns : ReadUidRun(run)
    /\ sched' = Accessed("fg")
    /\ UNCHANGED <<gainVars, histVars, scanVars, regVars, flagVars>>

FgIsNewCardPresent ==
    /\ FgRuns
    /\ \E c \in SchedPresence :
          /\ lastOp' = "isNewCardPresent"
          /\ ret' = PresentResult(transceiveData(c))
          /\ bus' = <<BusTransceive(<<PICC_CMD_REQA>>, 7)>>
          /\ chip' = <<c>>
    /\ UNCHANGED <<uidBytes, uidSize, sak, readRet>>
    /\ sched' = Accessed("fg")
    /\ UNCHANGED <<gainVars, histVars, scanVars, regVars, flagVars>>

FgSetAntennaGain ==
    /\ FgRuns
    /\ LET r == setAntennaGain(rfCfg, SchedGain)
       IN  /\ rfCfg' = r.reg
           /\ gainOp' = GainOp("set", SchedGain, 0)
           /\ gainLog' = r.log
    /\ sched' = Accessed("fg")
    /\ UNCHANGED <<apiVars, histVars, scanVars, regVars, flagVars>>

\* the user code pauses between two driver calls
FgPause ==
    /\ FgRuns
    /\ sched' = Paused(sched)
    /\ UNCHANGED <<apiVars, gainVars, histVars, scanVars, regVars, flagVars>>

\* nobody has the processor: a fiber whose pause is over gets it
Wake ==
    /\ sched.running = "none"
    /\ \E f \in {"fg"} \cup (IF scanning THEN {"bg"} ELSE {}) :
          sched' = [sched EXCEPT !.running = f]
    /\ UNCHANGED <<apiVars, gainVars, histVars, scanVars, regVars, flagVars>>

\* while (scanning) { if (isNewCardPresent()
BgIsNewCardPresent ==
    /\ BgRuns
    /\ pc = "test"
    /\ \E c \in SchedPresence :
          /\ lastOp' = "isNewCardPresent"
          /\ ret' = PresentResult(transceiveData(c))
          /\ bus' = <<BusTransceive(<<PICC_CMD_REQA>>, 7)>>
          /\ chip' = <<c>>
          /\ IF PresentResult(transceiveData(c))
             THEN pc' = "readUid" /\ UNCHANGED tested
             ELSE pc' = "pause100" /\ tested' = "miss"
    /\ calls' = <<>>
    /\ idx' = 0
    /\ UNCHANGED <<uidBytes, uidSize, sak, readRet>>
    /\ UNCHANGED <<tagDetectedHandlers, scanning, fibers, uid>>
    /\ sched' = Accessed("bg")
    /\ UNCHANGED <<gainVars, histVars, regVars, flagVars>>

\* && readUid())
BgReadUid ==
    /\ BgRuns
    /\ pc = "readUid"
    /\ \E run \in SchedRuns :
          /\ ReadUidRun(run)
          /\ IF run.r.ret
             THEN pc' = "getUidHex" /\ tested' = "hit"
             ELSE pc' = "pause100" /\ tested' = "miss"
    /\ UNCHANGED <<tagDetectedHandlers, scanning, fibers, idx, uid, calls>>
    /\ sched' = Accessed("bg")
    /\ UNCHANGED <<gainVars, histVars, regVars, flagVars>>

\* const uid = getUidHex()
BgGetUidHex ==
    /\ BgRuns
    /\ pc = "getUidHex"
    /\ uid' = getUidHex
    /\ pc' = "dispatch"
    /\ UNCHANGED <<tagDetectedHandlers, scanning, fibers, idx, tested, calls>>
    /\ UNCHANGED <<apiVars, gainVars, histVars, regVars, flagVars, schedVars>>

\* the for loop over tagDetectedHandlers, to its end
BgDispatch ==
    /\ BgRuns
    /\ pc = "dispatch"
    /\ calls' = [k \in 1..Len(tagDetectedHandlers) |->
                    [handler |-> tagDetectedHandlers[k], uid |-> uid]]
    /\ idx' = Len(tagDetectedHandlers)
    /\ pc' = "pause500"
    /\ UNCHANGED <<tagDetectedHandlers, scanning, fibers, uid, tested>>
    /\ UNCHANGED <<apiVars, gainVars, histVars, regVars, flagVars, schedVars>>

\* basic.pause(500)
BgPause500 ==
    /\ BgRuns
    /\ pc = "pause500"
    /\ pc' = "pause100"
    /\ sched' = Paused(sched)
    /\ UNCHANGED <<tagDetectedHandlers, scanning, fibers, idx, uid, tested, calls>>
    /\ UNCHANGED <<apiVars, gainVars, histVars, regVars, flagVars>>

\* basic.pause(100)
BgPause100 ==
    /\ BgRuns
    /\ pc = "pause100"
    /\ pc' = "test"
    /\ sched' = Paused(sched)
    /\ UNCHANGED <<tagDetectedHandlers, scanning, fibers, idx, uid, tested, calls>>
    /\ UNCHANGED <<apiVars, gainVars, histVars, regVars, flagVars>>

SchedNext ==
    \/ FgOnTagDetected
    \/ FgInitToPause
    \/ FgInitFromPause
    \/ FgReadUid
    \/ FgIsNewCardPresent
    \/ FgSetAntennaGain
    \/ FgPause
    \/ Wake
    \/ BgIsNewCardPresent
    \/ BgReadUid
    \/ BgGetUidHex
    \/ BgDispatch
    \/ BgPause500
    \/ BgPause100

SpecSched == SchedInit /\ [][SchedNext]_vars

(***************************************************************************)
(* Reading the last readUid() call off chip and bus.  A cascade level that *)
(* reached its select holds three answers: anticollision, CRC, select.     *)
(***************************************************************************)
\* number of cascade levels whose select command was sent
SelectsSent == Len(chip) \div 3

AcOf(j) == transceiveData(chip[3 * j - 2])

SelOf(j) == transceiveData(chip[3 * j])

\* the 4-byte fragment of level j, as unsigned bytes
Frag(j) == [i \in 1..4 |-> AcOf(j).back[i] % 256]

\* the first byte of the select response of level j, unsigned
SakOf(j) == SelOf(j).back[1] % 256

Bit(v, k) == (v \div (2 ^ k)) % 2

Bit2Set(v) == Bit(v, 2) = 1

RECURSIVE XorBits(_, _, _)
XorBits(a, b, k) ==
    IF k < 0 THEN 0
    ELSE ((Bit(a, k) + Bit(b, k)) % 2) * (2 ^ k) + XorBits(a, b, k - 1)

\* XOR of the four bytes of an unsigned fragment
FragXor(f) == XorBits(XorBits(XorBits(f[1], f[2], 7), f[3], 7), f[4], 7)

\* level j went through anticollision and select
LevelDone(j) ==
    /\ AcOf(j).status
    /\ Len(AcOf(j).back) >= 5
    /\ AcOf(j).back[5] % 256 = FragXor(Frag(j))
    /\ SelOf(j).status
    /\ Len(SelOf(j).back) >= 1

RECURSIVE ConcatLevels(_, _)
ConcatLevels(C(_), n) ==
    IF n = 0 THEN <<>> ELSE ConcatLevels(C, n - 1) \o C(n)

Last3(f) == <<f[2], f[3], f[4]>>

All4(f) == <<f[1], f[2], f[3], f[4]>>

\* a card with k cascade levels that answers as C1 describes
WellFormedCard(k) ==
    /\ lastOp = "readUid"
    /\ Len(chip) = 3 * k
    /\ \A j \in 1..k :
        /\ LevelDone(j)
        /\ Len(AcOf(j).back) = 5
        /\ j < k => Frag(j)[1] = 136 /\ Bit2Set(SakOf(j))
        /\ j = k => ~Bit2Set(SakOf(j))

\* C1's UID: the last 3 bytes of each fragment below k, then the whole of k
WellFormedUid(k) ==
    LET C(j) == IF j < k THEN Last3(Frag(j)) ELSE All4(Frag(j))
    IN  ConcatLevels(C, k)

ScenarioB ==
    /\ lastOp = "readUid"
    /\ Len(chip) = 6
    /\ LevelDone(1) /\ LevelDone(2)
    /\ Frag(1) = <<136, 17, 34, 51>> /\ Bit2Set(SakOf(1))
    /\ Frag(2) = <<68, 85, 102, 119>> /\ ~Bit2Set(SakOf(2))

StoredPart(j) ==
    IF Frag(j)[1] = 136 /\ j < 3 THEN Last3(Frag(j)) ELSE All4(Frag(j))

\* what C7 says is stored for a fragment received at level j
StatedPart(j) ==
    IF Frag(j)[1] = 136 /\ Bit2Set(SakOf(j)) THEN Last3(Frag(j)) ELSE All4(Frag(j))

\* number of level-1 and level-2 fragments of the last read starting with 0x88
TagsBelow3 ==
    Cardinality({ j \in 1..SelectsSent : j < 3 /\ Frag(j)[1] = 136 })

ReadReturnedTrue == lastOp = "readUid" /\ ret = TRUE

C3_FailedReadNoUidBytes ==
    readRet = "false" => getUidBytes = <<>>

\* a read that failed at level 2 with the level-1 bytes still in uidBytes,
\* followed by another operation
C3_Witness ==
    /\ readRet = "false"
    /\ lastOp = "isNewCardPresent"
    /\ Len(uidBytes) = 3

(***************************************************************************)
(* C4: after a readUid() that returned false, getUidHex() returns the      *)
(* empty string.                                                           *)
(***************************************************************************)
C4_FailedReadNoUidHex ==
    readRet = "false" => getUidHex = ""

(***************************************************************************)
(* C5: when all three cascade levels complete anticollision and select     *)
(* and the SAK of level 3 still has bit 2 set, readUid() returns false.    *)
(***************************************************************************)
C5_CascadeExhaustedFails ==
    ( /\ lastOp = "readUid"
      /\ Len(chip) = 9
      /\ \A j \in 1..3 : LevelDone(j)
      /\ Bit2Set(SakOf(3)) ) => ret = FALSE

(***************************************************************************)
(* C6: at every cascade level, after an anticollision transceive that      *)
(* returned a fragment F and a check byte C, readUid() goes on to the CRC  *)
(* and the select command iff C is the XOR of the four bytes of F; on a    *)
(* mismatch it returns false with the anticollision as its last bus call.  *)
(***************************************************************************)
IsAnticollision(i) ==
    /\ bus[i].call = "transceive"
    /\ Len(bus[i].data) = 2
    /\ bus[i].data[2] = 32

SelectFollows(i) ==
    /\ Len(bus) >= i + 2
    /\ bus[i + 1].call = "crc"
    /\ bus[i + 2].call = "transceive"
    /\ Len(bus[i + 2].data) = 9
    /\ bus[i + 2].data[1] = bus[i].data[1]
    /\ bus[i + 2].data[2] = 112

C6_CheckByteGate ==
    lastOp = "readUid" =>
        \A i \in 1..Len(bus) :
            LET a == transceiveData(chip[i])
                f == [k \in 1..4 |-> a.back[k] % 256]
            IN  (IsAnticollision(i) /\ a.status /\ Len(a.back) >= 5) =>
                    /\ SelectFollows(i) <=> (a.back[5] % 256 = FragXor(f))
                    /\ (a.back[5] % 256 # FragXor(f)) =>
                           (ret = FALSE /\ Len(bus) = i)

\* level 1 passed the check, level 2 failed it
C6_Witness ==
    /\ lastOp = "readUid"
    /\ Len(bus) = 4
    /\ SelectFollows(1)
    /\ AcOf(2).status
    /\ Len(AcOf(2).back) >= 5
    /\ AcOf(2).back[5] % 256 # FragXor(Frag(2))
    /\ ret = FALSE

C8_FailedReadSakZero ==
    readRet = "false" => sak = 0

(***************************************************************************)
(* C9: isNewCardPresent() sends exactly one transceive, of the single byte *)
(* 0x26 with 7 valid bits, and returns true iff that transceive succeeded  *)
(* and returned at least one byte.                                         *)
(***************************************************************************)
C9_PresenceCheck ==
    lastOp = "isNewCardPresent" =>
        /\ bus = <<[call |-> "transceive", data |-> <<38>>, bits |-> 7]>>
        /\ Len(chip) = 1
        /\ ret <=> ( /\ transceiveData(chip[1]).status
                     /\ Len(transceiveData(chip[1]).back) >= 1 )

\* the transceive succeeded with zero response bytes
C9_Witness ==
    /\ lastOp = "isNewCardPresent"
    /\ transceiveData(chip[1]).status
    /\ transceiveData(chip[1]).back = <<>>
    /\ ret = FALSE

(***************************************************************************)
(* C10: isNewCardPresent() leaves the stored UID bytes, UID size and SAK   *)
(* as they were, so getUidBytes(), getUidHex() and typeName() return the   *)
(* same values after the call as before it.                                *)
(***************************************************************************)
C10_PresenceKeepsUid ==
    [][ lastOp' = "isNewCardPresent" =>
          /\ uidBytes' = uidBytes
          /\ uidSize' = uidSize
          /\ sak' = sak
          /\ getUidBytes' = getUidBytes
          /\ getUidHex' = getUidHex
          /\ typeName' = typeName ]_vars

\* a card answered the presence check while a 7-byte UID is stored
C10_Witness ==
    /\ lastOp = "isNewCardPresent"
    /\ ret = TRUE
    /\ uidSize = 7
    /\ getUidHex = "11:22:33:44:55:66:77"
    /\ typeName = "NTAG (7-byte UID)"

(***************************************************************************)
(* C11: for every integer g and every prior content of the RF-config       *)
(* register, after setAntennaGain(g) getAntennaGain() returns g clamped to *)
(* [0,7], and bits 7 and 3..0 of the register are unchanged.               *)
(***************************************************************************)
ClampedTo07(g) == IF g < 0 THEN 0 ELSE IF g > 7 THEN 7 ELSE g

C11_GainSetAndFrame ==
    [][ gainOp'.op = "set" =>
          /\ getAntennaGain(rfCfg') = ClampedTo07(gainOp'.gain)
          /\ (rfCfg' \div 16) % 8 = ClampedTo07(gainOp'.gain)
          /\ rfCfg' \div 128 = rfCfg \div 128
          /\ rfCfg' % 16 = rfCfg % 16 ]_vars

\* a gain above the range was set over a register with bit 7 and bits 3..0
\* set and another gain: the field was cleared and written
C11_Witness ==
    /\ gainOp.op = "set"
    /\ gainOp.gain = 9
    /\ rfCfg = 255
    /\ Len(gainLog) = 5
    /\ gainLog[3].val = 143

(***************************************************************************)
(* C12: when setAntennaGain(g) is called twice in succession with the same *)
(* g, the second call performs no register write: it only reads the gain   *)
(* field.                                                                  *)
(***************************************************************************)
C12_SecondSetWritesNothing ==
    [][ (gainOp.op = "set" /\ gainOp'.op = "set" /\ gainOp'.gain = gainOp.gain) =>
          /\ WritesIn(gainLog') = 0
          /\ gainLog' = <<Rd(RFCfgReg, S8(rfCfg))>>
          /\ rfCfg' = rfCfg ]_vars

\* the first of two equal calls wrote the register twice, the second only
\* read it
C12_Witness ==
    /\ gainOp.op = "set"
    /\ gainOp.gain = 5
    /\ gainOp.before = [op |-> "set", gain |-> 5, writes |-> 2]
    /\ WritesIn(gainLog) = 0
    /\ (rfCfg \div 16) % 8 = 5

(***************************************************************************)
(* C13: the result of readUid() (return value, stored UID bytes, UID size, *)
(* SAK) is a function of the chip responses during that call only: from    *)
(* any driver state, whatever reads succeeded or failed before, the same   *)
(* chip responses give the same return value, stored UID and SAK.          *)
(***************************************************************************)
\* number of cascade levels of the last call that went through their select
LevelsDone == Cardinality({ j \in 1..SelectsSent : LevelDone(j) })

\* the call left its loop through the end, not through a return false
RanToEnd ==
    /\ LevelsDone >= 1
    /\ Len(chip) = 3 * LevelsDone
    /\ (LevelsDone = 3 \/ ~Bit2Set(SakOf(LevelsDone)))

\* what the call leaves, read off the chip responses alone
FromResponses ==
    LET bytes == ConcatLevels(StoredPart, LevelsDone)
    IN  [ret |-> RanToEnd /\ Len(bytes) > 0,
         uidBytes |-> bytes,
         uidSize |-> IF RanToEnd THEN Len(bytes) ELSE 0,
         sak |-> IF LevelsDone = 0 THEN 0 ELSE SakOf(LevelsDone)]

C13_ResultFromResponsesOnly ==
    lastOp = "readUid" =>
        [ret |-> ret, uidBytes |-> uidBytes, uidSize |-> uidSize, sak |-> sak]
            = FromResponses

\* a read that failed at its first anticollision, begun in the state a read
\* failing at level 2 had left (three UID bytes and SAK 0x04 stored)
C13_Witness ==
    /\ lastOp = "readUid"
    /\ Len(chip) = 1
    /\ prior.uidBytes = <<17, 34, 51>>
    /\ prior.sak = 4
    /\ ret = FALSE
    /\ uidBytes = <<>>
    /\ sak = 0

(***************************************************************************)
(* C14: however many times onTagDetected is called, exactly one background *)
(* scanning loop runs; each time the loop sees isNewCardPresent() and then *)
(* readUid() both return true, every handler registered so far is called   *)
(* exactly once, in registration order, with the getUidHex() string of     *)
(* that read; no handler is called when either of the two returned false.  *)
(***************************************************************************)
\* the calls a dispatch over the first n registered handlers makes
CallsOfFirst(n) ==
    [k \in 1..n |-> [handler |-> tagDetectedHandlers[k],
                     uid |-> UidHexOf(FromResponses.uidBytes)]]

\* one loop once a handler is registered; the calls of an iteration are
\* those of the first idx handlers, none after a test that came out false
OneLoopCallsInOrder ==
    /\ fibers = (IF Len(tagDetectedHandlers) = 0 THEN 0 ELSE 1)
    /\ scanning <=> fibers = 1
    /\ tested = "hit" =>
          lastOp = "readUid" /\ ret /\ calls = CallsOfFirst(idx)
    /\ tested = "miss" => ~ret /\ calls = <<>>

\* the dispatch ends only when every registered handler has been called
DispatchEndsAfterAll ==
    (pc = "dispatch" /\ pc' = "pause500") =>
        /\ idx = Len(tagDetectedHandlers)
        /\ calls' = CallsOfFirst(Len(tagDetectedHandlers))

C14_OneLoopEveryHandlerOnce ==
    /\ []OneLoopCallsInOrder
    /\ [][DispatchEndsAfterAll]_vars

\* two registrations and a 4-byte UID read: one loop, and the dispatch
\* called both handlers in the order they were registered
C14_Witness ==
    /\ fibers = 1
    /\ tagDetectedHandlers = <<"h2", "h1">>
    /\ pc = "pause500"
    /\ calls = <<[handler |-> "h2", uid |-> "44:55:66:77"],
                 [handler |-> "h1", uid |-> "44:55:66:77"]>>

(***************************************************************************)
(* Reading the last transceiveData call off its chip answer and accesses.  *)
(***************************************************************************)
IsTransceive == regOp.op = "transceive"

HasBit(v, bit) == (v \div bit) % 2 = 1

\* the bits the chip has raised by poll k of the call
RaisedBy(k, bit) ==
    \/ k > regOp.answer.idle /\ HasBit(regOp.answer.flags, bit)
    \/ k > regOp.answer.idle + 1 /\ HasBit(regOp.answer.later, bit)

RxOrIdleAt(k) == RaisedBy(k, 16) \/ RaisedBy(k, 32)

TimerOnlyAt(k) == RaisedBy(k, 1) /\ ~RxOrIdleAt(k)

LastPollLooked ==
    IF regOp.answer.idle + 2 < 2000 THEN regOp.answer.idle + 2 ELSE 2000

\* some poll within the budget shows a receive or idle bit, and no earlier
\* poll shows only the timer bit
PollDone ==
    \E k \in 1..LastPollLooked :
        /\ RxOrIdleAt(k)
        /\ \A j \in 1..(k - 1) : ~TimerOnlyAt(j)

\* the check of the error register as the driver makes it: BufferOvfl,
\* ParityErr, ProtocolErr
ErrorCheckPasses ==
    /\ ~HasBit(regOp.answer.err, 16)
    /\ ~HasBit(regOp.answer.err, 2)
    /\ ~HasBit(regOp.answer.err, 1)

Reads(reg) == { k \in 1..Len(regLog) : regLog[k].op = "read" /\ regLog[k].reg = reg }

Writes(reg) == { k \in 1..Len(regLog) : regLog[k].op = "write" /\ regLog[k].reg = reg }

FailedResult == [back |-> <<>>, validBits |-> 0, status |-> FALSE]

(***************************************************************************)
(* C15: transceiveData returns success iff some poll of ComIrqReg within   *)
(* the 2000-iteration budget shows the receive or idle bit before any      *)
(* earlier poll shows only the timer bit, and the error check then passes  *)
(* (a poll showing both a receive/idle bit and the timer bit is Done).  On *)
(* timer timeout or budget exhaustion it clears the start-send bit and     *)
(* returns (empty response, 0 valid bits, false) without reading           *)
(* FIFOLevelReg or the FIFO.                                               *)
(***************************************************************************)
C15_PollOutcome ==
    IsTransceive =>
        /\ regOp.result.status <=> (PollDone /\ ErrorCheckPasses)
        /\ Cardinality(Reads(4)) <= 2000
        /\ ~PollDone =>
              /\ regOp.result = FailedResult
              /\ Reads(10) = {}
              /\ Reads(9) = {}
              /\ \E k \in Writes(13) :
                    /\ regLog[k].val < 128
                    /\ \A j \in Reads(4) : j < k

\* the flag came one poll after the budget ran out: 2000 polls, failure
C15_Witness ==
    /\ IsTransceive
    /\ regOp.answer.idle = 2000
    /\ regOp.answer.flags = 100
    /\ regOp.answer.err = 0
    /\ Cardinality(Reads(4)) = 2000
    /\ regOp.result = FailedResult
    /\ regLog[Len(regLog)] = Rd(6, 0)

(***************************************************************************)
(* C16: when the transceive poll ends in Done and the error register has   *)
(* the collision error bit (0x08), the CRC error bit (0x04) or the parity  *)
(* error bit (0x02) set, transceiveData returns failure with an empty      *)
(* response.                                                               *)
(***************************************************************************)
C16_ErrorBitsFail ==
    (/\ IsTransceive
     /\ PollDone
     /\ \/ HasBit(regOp.answer.err, 8)
        \/ HasBit(regOp.answer.err, 4)
        \/ HasBit(regOp.answer.err, 2))
    => (~regOp.result.status /\ regOp.result.back = <<>>)

PollsOfCall(i) ==
    IF bus[i].call = "transceive"
    THEN PollsMade(chip[i].irq, TRANSCEIVE_BUDGET, IRQ_RX_IDLE + IRQ_TIMER)
    ELSE PollsMade(chip[i].irq, CRC_BUDGET, IRQ_CRC)

CallsOf(kind) == { i \in 1..Len(bus) : bus[i].call = kind }

\* the anticollision commands of the last operation, one per cascade level
LevelsStarted ==
    { i \in CallsOf("transceive") : Len(bus[i].data) = 2 /\ bus[i].data[2] = 32 }

C17_BoundedWork ==
    /\ Len(chip) = Len(bus)
    /\ \A i \in CallsOf("transceive") : PollsOfCall(i) \in 1..2000
    /\ \A i \in CallsOf("crc") : PollsOfCall(i) \in 1..500
    /\ lastOp = "readUid" =>
          /\ Cardinality(LevelsStarted) <= 3
          /\ Cardinality(CallsOf("transceive")) <= 6
          /\ Cardinality(CallsOf("crc")) <= 3
    /\ lastOp = "isNewCardPresent" =>
          /\ Cardinality(CallsOf("transceive")) = 1
          /\ CallsOf("crc") = {}

\* three cascade levels, six transceives and three CRC computations; the
\* chip never completed the first CRC nor answered the last select
C17_Witness ==
    /\ lastOp = "readUid"
    /\ Cardinality(LevelsStarted) = 3
    /\ Cardinality(CallsOf("transceive")) = 6
    /\ Cardinality(CallsOf("crc")) = 3
    /\ PollsOfCall(2) = 500
    /\ PollsOfCall(9) = 2000

(***************************************************************************)
(* C19: within one readUid() the cascade levels run in the order 1, 2, 3   *)
(* with select codes 0x93, 0x95, 0x97; at each level the anticollision     *)
(* command and the select command are each sent at most once; level L+1 is *)
(* started only after the select of level L returned a SAK with bit 2 set; *)
(* after a select whose SAK has bit 2 clear, or after any failing step, no *)
(* further transceive or CRC computation is issued by that call.           *)
(***************************************************************************)
CodeOfLevel(j) == <<147, 149, 151>>[j]

\* the level the i-th bus call belongs to, and its place in that level
LevelOfCall(i) == (i + 2) \div 3

\* the i-th bus call is what its place in the order asks for
CallInOrder(i) ==
    LET j == LevelOfCall(i)
    IN  /\ j \in 1..3
        /\ CASE i % 3 = 1 ->
                  bus[i] = [call |-> "transceive", data |-> <<CodeOfLevel(j), 32>>,
                            bits |-> 0]
             [] i % 3 = 2 ->
                  /\ bus[i].call = "crc"
                  /\ SubSeq(bus[i].data, 1, 2) = <<CodeOfLevel(j), 112>>
             [] i % 3 = 0 ->
                  /\ bus[i].call = "transceive"
                  /\ SubSeq(bus[i].data, 1, 2) = <<CodeOfLevel(j), 112>>
                  /\ SubSeq(bus[i].data, 1, 7) = bus[i - 1].data

\* the anticollision of level j failed: no answer, a short one, a wrong
\* check byte
AnticollisionFailed(j) ==
    \/ ~AcOf(j).status
    \/ Len(AcOf(j).back) < 5
    \/ AcOf(j).back[5] % 256 # FragXor(Frag(j))

SelectFailed(j) == ~SelOf(j).status \/ Len(SelOf(j).back) < 1

C19_CascadeOrder ==
    lastOp = "readUid" =>
        /\ Len(bus) >= 1
        /\ \A i \in 1..Len(bus) : CallInOrder(i)
        /\ \A j \in 1..3 :
              /\ Len(bus) >= 3 * j - 2 =>
                    (AnticollisionFailed(j) <=> Len(bus) = 3 * j - 2)
              /\ Len(bus) >= 3 * j =>
                    /\ (SelectFailed(j) => Len(bus) = 3 * j)
                    /\ (~SelectFailed(j) /\ ~Bit2Set(SakOf(j))) => Len(bus) = 3 * j
                    /\ Len(bus) > 3 * j => (~SelectFailed(j) /\ Bit2Set(SakOf(j)))

\* level 2 was run after a SAK of 0x04 at level 1 and ended the call with a
\* SAK of 0x00: no third level
C19_Witness ==
    /\ lastOp = "readUid"
    /\ Len(bus) = 6
    /\ ret = TRUE
    /\ bus[4].data = <<149, 32>>
    /\ SakOf(1) = 4
    /\ SakOf(2) = 0

(***************************************************************************)
(* C21: when the CRC completion flag (0x04) is never observed within the   *)
(* 500-poll budget, calculateCRC signals no failure: it still reads the    *)
(* two result registers and returns [low byte, high byte], and readUid()   *)
(* appends those two bytes to the 7-byte select command and sends it as if *)
(* the CRC were valid.                                                     *)
(***************************************************************************)
\* no poll of the i-th bus call, a CRC computation, shows the completion flag
CrcTimedOut(i) ==
    \A k \in 1..Len(chip[i].irq) : k <= 500 => ~HasBit(chip[i].irq[k] % 256, 4)

\* the register accesses of the i-th bus call, a CRC computation
CrcLogOf(i) == calculateCRCAccesses(bus[i].data, chip[i])

\* the chip's answers with the i-th one replaced by a CRC that completed at
\* the first poll with the same result registers
WithCrcCompleted(i) ==
    [chip EXCEPT ![i] = [irq |-> <<4>>, crcH |-> chip[i].crcH,
                         crcL |-> chip[i].crcL]]

C21_CrcTimeoutProceeds ==
    lastOp = "readUid" =>
        \A i \in CallsOf("crc") :
            CrcTimedOut(i) =>
                LET log == CrcLogOf(i)
                    n == Len(log)
                    polls == { k \in 1..n : log[k] = Rd(4, 0) }
                    valid == readUid(WithCrcCompleted(i))
                IN  /\ Cardinality(polls) = 500
                    /\ \A k \in polls : k < n - 1
                    /\ log[n - 1] = Rd(33, chip[i].crcH)
                    /\ log[n] = Rd(34, chip[i].crcL)
                    /\ Len(bus[i].data) = 7
                    /\ Len(bus) > i
                    /\ bus[i + 1].call = "transceive"
                    /\ bus[i + 1].data
                          = bus[i].data \o <<chip[i].crcL, chip[i].crcH>>
                    /\ valid.bus = bus
                    /\ valid.ret = ret
                    /\ valid.uidBytes = uidBytes
                    /\ valid.sak = sak

\* the CRC of level 1 never completed and both result registers read 0xFF:
\* the select was sent with those two bytes and the read succeeded
C21_Witness ==
    /\ lastOp = "readUid"
    /\ Len(bus) = 3
    /\ chip[2].irq = <<>>
    /\ Len(CrcLogOf(2)) = 511
    /\ bus[3].data = <<147, 112, 68, 85, 102, 119, 0, -1, -1>>
    /\ ret = TRUE
    /\ uidBytes = <<68, 85, 102, 119>>

(***************************************************************************)
(* C23: although register and FIFO reads return signed 8-bit values        *)
(* (-128..127), every byte stored in the UID and the stored SAK is in      *)
(* 0..255 after any readUid(); the check-byte comparison accepts a         *)
(* fragment iff the unsigned XOR of its bytes equals the unsigned check    *)
(* byte; and a first fragment byte read as -120 is recognised as the       *)
(* cascade tag 0x88.                                                       *)
(***************************************************************************)
\* the byte a signed read stands for
Unsigned(v) == IF v < 0 THEN v + 256 ELSE v

\* the FIFO bytes of the anticollision response of level j, as read
RawAc(j) == chip[3 * j - 2].fifo

\* the unsigned XOR of the four fragment bytes of level j
RawXor(j) ==
    FragXor([i \in 1..4 |-> Unsigned(RawAc(j)[i])])

\* the anticollision of level j was accepted: the driver went on to the CRC
Accepted(j) == Len(bus) > 3 * j - 2

\* what is stored for level j when -120 is taken as the cascade tag
PartWithTag(j) ==
    LET f == [i \in 1..4 |-> Unsigned(RawAc(j)[i])]
    IN  IF RawAc(j)[1] = -120 /\ j < 3 THEN Last3(f) ELSE All4(f)

\* the levels of the last read whose select was answered
LevelsSelected == { j \in 1..SelectsSent : LevelDone(j) }

C23_SignedReadsUnsignedStore ==
    lastOp = "readUid" =>
        /\ \A i \in 1..Len(uidBytes) : uidBytes[i] \in 0..255
        /\ sak \in 0..255
        /\ \A j \in LevelsSelected :
              \A i \in 1..j : i \in LevelsSelected
        /\ \A j \in LevelsSelected :
              j + 1 \notin LevelsSelected =>
                  sak = Unsigned(chip[3 * j].fifo[1])
        /\ \A j \in 1..3 :
              (3 * j - 2 <= Len(chip) /\ Len(RawAc(j)) >= 5
                   /\ AcOf(j).status) =>
                  (Accepted(j) <=> RawXor(j) = Unsigned(RawAc(j)[5]))
        /\ uidBytes = ConcatLevels(PartWithTag, Cardinality(LevelsSelected))

\* 0x88 read as -120 at level 1 with check byte -120 and SAK -4 (0xFC), then
\* a fragment of 0xFF 0xFF 0xFF 0x80 with SAK -120: seven bytes 0..255 stored
C23_Witness ==
    /\ lastOp = "readUid"
    /\ ret = TRUE
    /\ Len(chip) = 6
    /\ chip[1].fifo = <<-120, 17, 34, 51, -120>>
    /\ chip[3].fifo = <<-4>>
    /\ chip[4].fifo = <<-1, -1, -1, -128, 127>>
    /\ chip[6].fifo = <<-120>>
    /\ uidBytes = <<17, 34, 51, 255, 255, 255, 128>>
    /\ sak = 136

(***************************************************************************)
(* C24: calculateCRC does not itself clear the CRC completion flag before  *)
(* polling, yet in every readUid() each calculateCRC call is preceded,     *)
(* with no CRC command in between, by a transceiveData that cleared all    *)
(* interrupt flags; so whenever the CRC poll loop exits on the completion  *)
(* flag, that flag was raised by the CRC command issued in the same        *)
(* calculateCRC call and not by an earlier CRC computation.                *)
(***************************************************************************)
InCalculateCRC == crcRun.step \in {"load", "command", "poll", "result"}

\* no step of calculateCRC clears the bit
CrcKeepsFlag ==
    (InCalculateCRC /\ crcRun.crcIrq # "clear") => crcRun'.crcIrq # "clear"

\* when calculateCRC begins and when it writes its command, ComIrqReg has
\* been cleared and no CalcCRC command was written since
ClearedBeforeCrc ==
    crcRun.step \in {"load", "command"} =>
        /\ ~crcRun.crcSinceClear
        /\ crcRun.command \notin {"crc_this", "crc_earlier"}
        /\ crcRun.crcIrq = "clear"

ExitOnOwnFlag == crcRun.exitOn = "flag" => crcRun.seen = "this"

C24_CrcFlagIsOwn ==
    [](ClearedBeforeCrc /\ ExitOnOwnFlag) /\ [][CrcKeepsFlag]_vars

\* the second CRC computation of a readUid() ended on its own flag after the
\* chip had raised the flag outside a poll loop of calculateCRC, between the
\* clearing write and the Idle write of a transceiveData
C24_Witness ==
    /\ crcRun.busOp = "readUid"
    /\ crcRun.todo = <<"crc", "transceive">>
    /\ crcRun.step = "result"
    /\ crcRun.exitOn = "flag"
    /\ crcRun.seen = "this"
    /\ crcRun.late

(***************************************************************************)
(* C22: under cooperative scheduling where a task yields only at pause(),  *)
(* no bus transaction of the background scanning loop started by           *)
(* onTagDetected occurs between the first and the last register access of  *)
(* a foreground init(), readUid(), isNewCardPresent() or setAntennaGain()  *)
(* call; conversely no foreground bus transaction occurs inside the loop's *)
(* isNewCardPresent() + readUid() + getUidHex() sequence.                  *)
(***************************************************************************)
C22_NoInterleaving == sched.mixed = {}

\* what does hold: the only accesses of one fiber inside an operation of the
\* other are those of the loop inside a foreground init()
C22_OnlyInsideInit ==
    sched.mixed \subseteq {[by |-> "bg", inside |-> "init"]}

====
